---- MODULE Spec2Model ----
(***************************************************************************)
(* A model of datacube.py: the Datacube wrapper around one FITS image      *)
(* extension, its lazily cached coordinate descriptor and spectral axes,   *)
(* the velocity -> channel lookup, the DatacubeMoments mix-in and the      *)
(* EBHISDatacube specialisation.                                           *)
(*                                                                         *)
(* Representation.                                                         *)
(*  - A float is a tuple: <<>> is NaN and <<v>> the number v.              *)
(*  - An ndarray is [dtype, shape, flat] with flat in row-major order.     *)
(*  - A Python string that the code searches ('VRAD' in ctype) is a tuple  *)
(*    of characters.                                                       *)
(*  - A method is an operator from the instance to [self, ret]: the        *)
(*    instance after the call and what the call returned or raised.        *)
(*  - Spectral numbers are integers.  The input headers carry multiples of *)
(*    1000 so that every unit scaling the code asks for is exact, and      *)
(*    a quotient that is not exact is rounded to the nearest integer.      *)
(***************************************************************************)
EXTENDS Integers, Sequences, FiniteSets, TLC

VARIABLES obj, call, outcome

vars == <<obj, call, outcome>>

----------------------------------------------------------------------------
(* Bounds of the model *)

\* channels of the longest cube of the life-cycle specification
NChan == 3

\* channels of the cubes of the moment specification
MChan == 2

\* the spatial plane of every cube: one row of two pixels
PlaneShape == <<1, 2>>

----------------------------------------------------------------------------
(* Python values *)

None == [tag |-> "None"]

Return(v) == [tag |-> "return", value |-> v]

Raise(exc, msg) == [tag |-> "raise", exc |-> exc, msg |-> msg]

NaN == <<>>

Num(v) == <<v>>

IsNaN(x) == Len(x) = 0

Mul(a, b) == IF IsNaN(a) \/ IsNaN(b) THEN NaN ELSE Num(a[1] * b[1])

Reversed(s) == [i \in 1..Len(s) |-> s[Len(s) + 1 - i]]

Prod(s) == IF Len(s) = 0 THEN 1 ELSE IF Len(s) = 1 THEN s[1]
           ELSE IF Len(s) = 2 THEN s[1] * s[2] ELSE s[1] * s[2] * s[3]

\* sub in s, for Python strings
Contains(sub, s) ==
    \E i \in 1..(Len(s) - Len(sub) + 1) : SubSeq(s, i, i + Len(sub) - 1) = sub

VRAD == <<"V", "R", "A", "D">>

VOPT == <<"V", "O", "P", "T">>

FREQ == <<"F", "R", "E", "Q">>

VELO == <<"V", "E", "L", "O">>

VOPT_F2W == <<"V", "O", "P", "T", "-", "F", "2", "W">>

----------------------------------------------------------------------------
(* astropy.units: a unit is a physical type and a scale to its base unit *)

Hz == [base |-> "Hz", scale |-> 1]

m_s == [base |-> "m/s", scale |-> 1]

km_s == [base |-> "m/s", scale |-> 1000]

deg == [base |-> "deg", scale |-> 1]

dimensionless_unscaled == [base |-> "", scale |-> 1]

\* u.Unit(s)
Unit(s) == CASE s = "Hz" -> Hz
             [] s = "m/s" -> m_s
             [] s = "km/s" -> km_s
             [] s = "deg" -> deg
             [] OTHER -> dimensionless_unscaled

Quantity(value, unit) == [tag |-> "Quantity", value |-> value, unit |-> unit]

\* the speed of light in km/s, in the model's scale
c_kms == 1000

doppler_radio(rest) == [kind |-> "radio", rest |-> rest]

doppler_optical(rest) == [kind |-> "optical", rest |-> rest]

NoEquivalency == [kind |-> "none", rest |-> 0]

\* a / b for b > 0, rounded to the nearest integer
Quot(a, b) == (2 * a + b) \div (2 * b)

\* one value: a velocity in km/s to a frequency in Hz
VelToFreq(v, eq) ==
    IF eq.kind = "radio" THEN Quot(eq.rest * (c_kms - v), c_kms)
    ELSE Quot(eq.rest * c_kms, c_kms + v)

\* one value: a frequency in Hz to a velocity in km/s
FreqToVel(f, eq) ==
    IF eq.kind = "radio" THEN Quot(c_kms * (eq.rest - f), eq.rest)
    ELSE Quot(c_kms * (eq.rest - f), f)

\* Quantity.to(unit, equivalencies)
to(q, unit, eq) ==
    IF q.unit.base = unit.base
    THEN Return(Quantity([i \in 1..Len(q.value) |->
                             Quot(q.value[i] * q.unit.scale, unit.scale)], unit))
    ELSE IF eq.kind # "none" /\ q.unit.base = "m/s" /\ unit.base = "Hz"
    THEN Return(Quantity([i \in 1..Len(q.value) |->
             Quot(VelToFreq(Quot(q.value[i] * q.unit.scale, km_s.scale), eq),
                  unit.scale)], unit))
    ELSE IF eq.kind # "none" /\ q.unit.base = "Hz" /\ unit.base = "m/s"
    THEN Return(Quantity([i \in 1..Len(q.value) |->
             Quot(FreqToVel(q.value[i] * q.unit.scale, eq) * km_s.scale,
                  unit.scale)], unit))
    ELSE Raise("UnitConversionError", <<q.unit.base, unit.base>>)

----------------------------------------------------------------------------
(* numpy *)

ndarray(dtype, shape, flat) ==
    [tag |-> "ndarray", dtype |-> dtype, shape |-> shape, flat |-> flat]

\* a Python float used as an operand: a zero-dimensional array
scalar(x) == ndarray("float64", <<>>, <<x>>)

\* the dtype of a product of arrays of these dtypes
result_type(d1, d2) == IF d1 = "float64" \/ d2 = "float64" THEN "float64" ELSE d1

\* a.astype(dtype): the model's values are exact in either float type
astype(a, dtype) == [a EXCEPT !.dtype = dtype]

\* np.arange(n)
arange(n) == ndarray("int64", <<n>>, [i \in 1..n |-> i - 1])

\* a[::-1] for a one-dimensional array
Flip(a) == [a EXCEPT !.flat = Reversed(a.flat)]

\* the bounds of slice(lo, hi) on an axis of n entries
SliceStart(lo, n) == IF lo < 0 THEN (IF lo + n < 0 THEN 0 ELSE lo + n)
                     ELSE (IF lo > n THEN n ELSE lo)

SliceLen(lo, hi, n) ==
    IF SliceStart(hi, n) > SliceStart(lo, n)
    THEN SliceStart(hi, n) - SliceStart(lo, n) ELSE 0

\* a[lo:hi] along the first axis
GetSlice(a, lo, hi) ==
    LET n == a.shape[1]
        plane == Prod(Tail(a.shape))
        start == SliceStart(lo, n)
        len == SliceLen(lo, hi, n)
    IN [a EXCEPT !.shape = <<len>> \o Tail(a.shape),
                 !.flat = SubSeq(a.flat, start * plane + 1,
                                 (start + len) * plane)]

\* a[None]
NewAxis(a) == [a EXCEPT !.shape = <<1>> \o a.shape]

\* a * b for a of shape (n, ...) and b a Python float, an array of a's shape,
\* or an array of shape (1, ...) that broadcasts along the first axis
Multiply(a, b) ==
    IF b.shape = <<>>
    THEN Return([a EXCEPT !.flat =
                    [i \in 1..Len(a.flat) |-> Mul(a.flat[i], b.flat[1])]])
    ELSE IF b.shape = a.shape
    THEN Return([a EXCEPT !.dtype = result_type(a.dtype, b.dtype),
                          !.flat =
                    [i \in 1..Len(a.flat) |-> Mul(a.flat[i], b.flat[i])]])
    ELSE IF Len(b.shape) = Len(a.shape) /\ b.shape[1] = 1
            /\ Tail(b.shape) = Tail(a.shape)
    THEN Return([a EXCEPT !.dtype = result_type(a.dtype, b.dtype),
                          !.flat =
                    [i \in 1..Len(a.flat) |->
                        Mul(a.flat[i],
                            b.flat[((i - 1) % Prod(Tail(a.shape))) + 1])]])
    ELSE Raise("ValueError", <<"operands could not be broadcast together">>)

RECURSIVE NanSumFrom(_, _, _, _)
\* the sum of flat[p], flat[p + plane], ... , NaN entries skipped
NanSumFrom(flat, p, plane, acc) ==
    IF p > Len(flat) THEN acc
    ELSE NanSumFrom(flat, p + plane, plane,
                    IF IsNaN(flat[p]) THEN acc ELSE acc + flat[p][1])

\* np.sum in the place of np.nansum: a NaN entry makes the sum NaN
nansum_as_sum(a) ==
    LET plane == Prod(Tail(a.shape))
    IN ndarray(a.dtype, Tail(a.shape),
               [p \in 1..plane |->
                   IF \E c \in 0..(a.shape[1] - 1) : IsNaN(a.flat[c * plane + p])
                   THEN NaN ELSE Num(NanSumFrom(a.flat, p, plane, 0))])

\* np.nansum(a, 0)
nansum(a) ==
    LET plane == Prod(Tail(a.shape))
    IN ndarray(a.dtype, Tail(a.shape),
               [p \in 1..plane |-> Num(NanSumFrom(a.flat, p, plane, 0))])

RECURSIVE BinSearch(_, _, _, _, _)
\* numpy's left binary search over a[sorter[.]] (a[.] when sorter is None);
\* sorter is None or an integer array
BinSearch(a, sorter, key, lo, hi) ==
    IF lo >= hi THEN lo
    ELSE LET mid == lo + ((hi - lo) \div 2)
             at == IF sorter = None THEN a[mid + 1]
                   ELSE a[sorter.flat[mid + 1] + 1]
         IN IF at < key THEN BinSearch(a, sorter, key, mid + 1, hi)
            ELSE BinSearch(a, sorter, key, lo, mid)

\* np.searchsorted(a, v, sorter=sorter), v an array
searchsorted(a, v, sorter) ==
    [i \in 1..Len(v) |-> BinSearch(a, sorter, v[i], 0, Len(a))]

----------------------------------------------------------------------------
(* astropy.io.fits and astropy.wcs *)

\* fits.ImageHDU(data=data, header=header)
ImageHDU(d, h) == [is_image |-> TRUE, data |-> d, header |-> h]

\* fits.open(path): a path stands for the HDU list of the file it names
fits_open(path) == path.hdus

\* apywcs.WCS(header): the descriptor is a snapshot of the header's fields
WCS(h) ==
    [tag |-> "WCS",
     ctype |-> <<h.CTYPE1, h.CTYPE2, h.CTYPE3>>,
     cunit |-> <<h.CUNIT1, h.CUNIT2, h.CUNIT3>>,
     crval3 |-> h.CRVAL3, cdelt3 |-> h.CDELT3, crpix3 |-> h.CRPIX3,
     restfrq |-> h.RESTFRQ, specsys |-> h.SPECSYS,
     spec |-> 2]

\* wcs.sub(['spectral']).wcs_pix2world(channels, 0)[0]
wcs_pix2world(w, channels) ==
    [i \in 1..Len(channels.flat) |->
        w.crval3 + w.cdelt3 * (channels.flat[i] + 1 - w.crpix3)]

----------------------------------------------------------------------------
(* class Datacube *)

\* the names Datacube defines (lines 16-160)
DatacubeAttributes ==
    {"_wcs", "_hdu", "_dtype", "_axis_units", "_frequencies",
     "_radio_velocities", "_optical_velocities", "__init__", "data", "header",
     "hdu", "wcs", "spec_wcs", "cel_wcs", "axis_units", "radio_velocities",
     "optical_velocities", "frequencies", "radio_velocities_to_channels"}

\* the names DatacubeMoments defines
DatacubeMomentsAttributes == {"moment"}

\* the names an instance of cls resolves
Attributes(cls) ==
    IF cls = "EBHISDatacube"
    THEN DatacubeAttributes \cup DatacubeMomentsAttributes \cup {"__init__"}
    ELSE DatacubeAttributes

NoAttribute(cls, name) ==
    Raise("AttributeError", <<cls, "object has no attribute", name>>)

\* a new instance: the class attributes of lines 16-25
NewInstance(cls) ==
    [cls |-> cls, _wcs |-> None, _hdu |-> None, _dtype |-> None,
     _axis_units |-> None, _frequencies |-> None,
     _radio_velocities |-> None, _optical_velocities |-> None]

\* the first image HDU of the list, None when it has none
FirstImage(hdus) ==
    LET images == {i \in 1..Len(hdus) : hdus[i].is_image}
    IN IF images = {} THEN None
       ELSE hdus[CHOOSE i \in images : \A j \in images : i <= j]

\* __init__ with "or" in the place of "and" on line 38
Datacube_init_either(self, path, dat, hdr, kwargs) ==
    LET s1 == [self EXCEPT !._dtype =
                  IF \E p \in kwargs : p[1] = "dtype"
                  THEN (CHOOSE p \in kwargs : p[1] = "dtype")[2] ELSE "float32"]
    IN IF path # None
       THEN [self |-> [s1 EXCEPT !._hdu = FirstImage(fits_open(path))],
             ret |-> Return(None)]
       ELSE IF dat # None \/ hdr # None
       THEN [self |-> [s1 EXCEPT !._hdu = ImageHDU(dat, hdr)],
             ret |-> Return(None)]
       ELSE [self |-> s1,
             ret |-> Raise("AttributeError",
                           <<"Either path or data and header have to be set.">>)]

\* kwargs.get(key, default); kwargs is the set of <<keyword, value>> given
kwargs_get(kwargs, key, default) ==
    IF \E p \in kwargs : p[1] = key
    THEN (CHOOSE p \in kwargs : p[1] = key)[2] ELSE default

\* Datacube.__init__(self, path, data, header, **kwargs)
Datacube_init(self, path, dat, hdr, kwargs) ==
    LET s1 == [self EXCEPT !._dtype = kwargs_get(kwargs, "dtype", "float32")]
    IN IF path # None
       THEN [self |-> [s1 EXCEPT !._hdu = FirstImage(fits_open(path))],
             ret |-> Return(None)]
       ELSE IF dat # None /\ hdr # None
       THEN [self |-> [s1 EXCEPT !._hdu = ImageHDU(dat, hdr)],
             ret |-> Return(None)]
       ELSE [self |-> s1,
             ret |-> Raise("AttributeError",
                           <<"Either path or data and header have to be set.">>)]

\* Datacube.data
data(self) ==
    IF self._hdu.data.dtype # self._dtype
    THEN LET s1 == [self EXCEPT !._hdu.data = astype(@, self._dtype)]
         IN [self |-> s1, ret |-> Return(s1._hdu.data)]
    ELSE [self |-> self, ret |-> Return(self._hdu.data)]

\* Datacube.header
header(self) == self._hdu.header

\* Datacube.hdu
hdu(self) == self._hdu

\* Datacube.wcs
wcs(self) ==
    IF self._wcs = None
    THEN LET s1 == [self EXCEPT !._wcs = WCS(header(self))]
         IN [self |-> s1, ret |-> Return(s1._wcs)]
    ELSE [self |-> self, ret |-> Return(self._wcs)]

\* [u.Unit(s) for s in cunit]
parse_units(cunit) ==
    [tag |-> "list", items |-> [i \in 1..Len(cunit) |-> Unit(cunit[i])]]

\* line 79, w being what self.wcs gave
axis_units_store(w) ==
    [self |-> [w.self EXCEPT !._axis_units = parse_units(w.ret.value.cunit)],
     ret |-> Return(parse_units(w.ret.value.cunit))]

\* Datacube.axis_units
axis_units(self) ==
    IF self._axis_units = None THEN axis_units_store(wcs(self))
    ELSE [self |-> self, ret |-> Return(self._axis_units)]

\* the chain of lines 109-117 ending in a default in the place of the raise
spectral_equivalency_default(ctype, restfrq) ==
    IF Contains(VRAD, ctype) THEN Return(doppler_radio(restfrq))
    ELSE IF Contains(VOPT, ctype) THEN Return(doppler_optical(restfrq))
    ELSE Return(NoEquivalency)

\* lines 108-117: the equivalency for the spectral axis type, or the error
spectral_equivalency(ctype, restfrq) ==
    IF Contains(VRAD, ctype) THEN Return(doppler_radio(restfrq))
    ELSE IF Contains(VOPT, ctype) THEN Return(doppler_optical(restfrq))
    ELSE IF Contains(FREQ, ctype) THEN Return(NoEquivalency)
    ELSE Raise("AttributeError",
               <<"Unsupported spectral type ", ctype, " in header.">>)

\* line 119: s is the instance, f what specc.to(u.Hz, eq) gave
frequencies_store(s, f) ==
    IF f.tag = "raise" THEN [self |-> s, ret |-> f]
    ELSE [self |-> [s EXCEPT !._frequencies = f.value], ret |-> f]

\* lines 108-119: q is specc with its unit, eq the equivalency or the error
frequencies_convert(s, q, eq) ==
    IF eq.tag = "raise" THEN [self |-> s, ret |-> eq]
    ELSE frequencies_store(s, to(q, Hz, eq.value))

\* lines 103-117: w is the descriptor, shape the data's shape, au what
\* self.axis_units gave
frequencies_axis(w, shape, au) ==
    frequencies_convert(
        au.self,
        Quantity(wcs_pix2world(w, arange(Reversed(shape)[w.spec + 1])),
                 au.ret.value.items[w.spec + 1]),
        spectral_equivalency(w.ctype[w.spec + 1], w.restfrq))

\* lines 103-106: d is what self.data gave
frequencies_data(w, d) ==
    frequencies_axis(w, d.ret.value.shape, axis_units(d.self))

\* lines 101-103: w is what self.wcs gave
frequencies_compute(w) == frequencies_data(w.ret.value, data(w.self))

\* Datacube.frequencies
frequencies(self) ==
    IF self._frequencies = None THEN frequencies_compute(wcs(self))
    ELSE [self |-> self, ret |-> Return(self._frequencies)]

\* line 86: f is what self.frequencies gave, v its conversion
radio_velocities_store(f, v) ==
    IF f.ret.tag = "raise" THEN f
    ELSE [self |-> [f.self EXCEPT !._radio_velocities = v.value], ret |-> v]

\* lines 85-86: w is what self.wcs gave, f what self.frequencies gave
radio_velocities_compute(w, f) ==
    radio_velocities_store(
        f, IF f.ret.tag = "raise" THEN f.ret
           ELSE to(f.ret.value, km_s, doppler_radio(w.ret.value.restfrq)))

\* Datacube.radio_velocities
radio_velocities(self) ==
    IF self._radio_velocities = None
    THEN radio_velocities_compute(wcs(self), frequencies(wcs(self).self))
    ELSE [self |-> self, ret |-> Return(self._radio_velocities)]

\* line 94 assigning to self._radio_velocities, as line 86 does
optical_velocities_store_radio(f, v) ==
    IF f.ret.tag = "raise" THEN f
    ELSE [self |-> [f.self EXCEPT !._radio_velocities = v.value], ret |-> v]

\* line 94: f is what self.frequencies gave, v its conversion
optical_velocities_store(f, v) ==
    IF f.ret.tag = "raise" THEN f
    ELSE [self |-> [f.self EXCEPT !._optical_velocities = v.value], ret |-> v]

\* lines 93-94: w is what self.wcs gave, f what self.frequencies gave
optical_velocities_compute(w, f) ==
    optical_velocities_store(
        f, IF f.ret.tag = "raise" THEN f.ret
           ELSE to(f.ret.value, km_s, doppler_optical(w.ret.value.restfrq)))

\* Datacube.optical_velocities
optical_velocities(self) ==
    IF self._optical_velocities = None
    THEN optical_velocities_compute(wcs(self), frequencies(wcs(self).self))
    ELSE [self |-> self, ret |-> Return(self._optical_velocities)]

\* a[channels] for a one-dimensional a: IndexError on an index outside it
Take(a, channels) ==
    IF \E i \in 1..Len(channels) : channels[i] >= Len(a) \/ channels[i] < -Len(a)
    THEN Raise("IndexError", <<"index out of bounds">>)
    ELSE Return([i \in 1..Len(channels) |->
                    IF channels[i] < 0 THEN a[Len(a) + channels[i] + 1]
                    ELSE a[channels[i] + 1]])

\* lines 150-154: the sorter array of a ''reversed'' axis, None otherwise
make_sorter(axis) ==
    IF axis[1] > axis[Len(axis)] THEN Flip(arange(Len(axis))) ELSE None

\* lines 158-160: tv is what self.radio_velocities[channels] gave
lookup_result(s, channels, tv, unit) ==
    IF tv.tag = "raise" THEN [self |-> s, ret |-> tv]
    ELSE [self |-> s,
          ret |-> Return([channels |-> channels,
                          true_velocities |-> Quantity(tv.value, unit)])]

\* lines 156-160
lookup_channels(s, axis, channels) ==
    lookup_result(s, channels, Take(axis.value, channels), axis.unit)

\* lines 150-160: sv is the converted query, or the error of converting it
lookup_search(s, axis, sv) ==
    IF sv.tag = "raise" THEN [self |-> s, ret |-> sv]
    ELSE lookup_channels(s, axis,
             searchsorted(axis.value, sv.value.value, make_sorter(axis.value)))

\* lines 144-160: rv is what self.radio_velocities gave
lookup_convert(rv, velocities) ==
    IF rv.ret.tag = "raise" THEN rv
    ELSE lookup_search(rv.self, rv.ret.value,
             IF velocities.unit # dimensionless_unscaled
             THEN to(velocities, rv.ret.value.unit, NoEquivalency)
             ELSE Return(velocities))

\* Datacube.radio_velocities_to_channels(self, velocities);
\* velocities is a Quantity, dimensionless when the caller gave plain numbers
radio_velocities_to_channels(self, velocities) ==
    lookup_convert(radio_velocities(self), velocities)

----------------------------------------------------------------------------
(* class DatacubeMoments *)

\* np.floor and np.ceil of a channel bound; a bound is held in half
\* channels (h stands for h / 2), so that 0.5, 1.5, ... can be given
np_floor(h) == h \div 2

np_ceil(h) == (h + 1) \div 2

\* an integer channel as a bound
FromChannel(c) == 2 * c

\* lines 177-182 without the slice of line 182
select_mask_unsliced(mask, shape, lo, hi) ==
    IF mask = None THEN scalar(Num(1))
    ELSE IF mask.shape = Tail(shape) THEN NewAxis(mask)
    ELSE mask

\* lines 177-182: the mask as it is multiplied with the sliced data
select_mask(mask, shape, lo, hi) ==
    IF mask = None THEN scalar(Num(1))
    ELSE IF mask.shape = Tail(shape) THEN NewAxis(mask)
    ELSE IF mask.shape = shape THEN GetSlice(mask, lo, hi)
    ELSE mask

\* line 169: cslice[-1] += 1 on the channels the lookup gave
widen(ch) ==
    [tag |-> "list",
     items |-> [i \in 1..Len(ch) |->
                   IF i = Len(ch) THEN FromChannel(ch[i] + 1)
                   ELSE FromChannel(ch[i])]]

\* lines 171-175: the integer bounds of data_slice, None without a cslice
slice_bounds(s, cs) ==
    IF cs = None THEN [self |-> s, ret |-> Return(None)]
    ELSE [self |-> s,
          ret |-> Return([lo |-> np_floor(cs.items[1]),
                          hi |-> np_ceil(cs.items[2])])]

\* lines 168-175: lk is what radio_velocities_to_channels(vslice) gave
slice_of_lookup(lk) ==
    IF lk.ret.tag = "raise" THEN lk
    ELSE slice_bounds(lk.self, widen(lk.ret.value.channels))

\* lines 167-175: the integer bounds of data_slice
data_slice(self, vslice, cslice) ==
    IF vslice # None
    THEN slice_of_lookup(radio_velocities_to_channels(self, vslice))
    ELSE slice_bounds(self, cslice)

\* lines 186-194: s_data and m are the sliced data and the selected mask
moment_of(s, cls, s_data, m, kind) ==
    IF kind = 0
    THEN [self |-> s,
          ret |-> IF Multiply(s_data, m).tag = "raise" THEN Multiply(s_data, m)
                  ELSE Return(nansum(Multiply(s_data, m).value))]
    ELSE IF kind = 1
    THEN \* line 190 reads self.velocities, a name that is not in
         \* Attributes(cls): the read raises and lines 192-194 are never
         \* reached
         [self |-> s, ret |-> NoAttribute(cls, "velocities")]
    ELSE [self |-> s, ret |-> Return(None)]

\* lines 177-194: d is what self.data gave
moment_sliced(d, lo, hi, kind, mask) ==
    moment_of(d.self, d.self.cls, GetSlice(d.ret.value, lo, hi),
              select_mask(mask, d.ret.value.shape, lo, hi), kind)

\* lines 171-194: sl is what data_slice gave
moment_slice(sl, kind, mask) ==
    IF sl.ret.tag = "raise" THEN sl
    ELSE IF sl.ret.value = None THEN sl
    ELSE moment_sliced(data(sl.self), sl.ret.value.lo, sl.ret.value.hi,
                       kind, mask)

\* DatacubeMoments.moment(self, vslice, cslice, kind, mask)
moment(self, vslice, cslice, kind, mask) ==
    moment_slice(data_slice(self, vslice, cslice), kind, mask)

----------------------------------------------------------------------------
(* class EBHISDatacube *)

\* __init__ building the coordinate descriptor before it overwrites the header
EBHISDatacube_init_eager(self, path, dat, hdr, kwargs) ==
    LET r == Datacube_init(self, path, dat, hdr, kwargs)
    IN IF r.ret.tag = "raise" THEN r
       ELSE [self |-> [wcs(r.self).self EXCEPT
                          !._hdu.header.CUNIT3 = "m/s",
                          !._hdu.header.CTYPE3 = VRAD,
                          !._hdu.header.SPECSYS = "LSRK"],
             ret |-> Return(None)]

\* EBHISDatacube.__init__(self, *args, **kwargs)
EBHISDatacube_init(self, path, dat, hdr, kwargs) ==
    LET r == Datacube_init(self, path, dat, hdr, kwargs)
    IN IF r.ret.tag = "raise" THEN r
       ELSE [self |-> [r.self EXCEPT !._hdu.header.CUNIT3 = "m/s",
                                      !._hdu.header.CTYPE3 = VRAD,
                                      !._hdu.header.SPECSYS = "LSRK"],
             ret |-> Return(None)]

\* cls(path, data, header, **kwargs)
new(cls, path, dat, hdr, kwargs) ==
    IF cls = "EBHISDatacube"
    THEN EBHISDatacube_init(NewInstance(cls), path, dat, hdr, kwargs)
    ELSE Datacube_init(NewInstance(cls), path, dat, hdr, kwargs)

----------------------------------------------------------------------------
(* The inputs *)

Classes == {"Datacube", "EBHISDatacube"}

\* a header of a cube whose third axis is the spectral one
Header(ctype, cunit, crval, cdelt) ==
    [CTYPE1 |-> <<"R", "A">>, CTYPE2 |-> <<"D", "E", "C">>, CTYPE3 |-> ctype,
     CUNIT1 |-> "deg", CUNIT2 |-> "deg", CUNIT3 |-> cunit,
     CRVAL3 |-> crval, CDELT3 |-> cdelt, CRPIX3 |-> 1,
     RESTFRQ |-> 200000, SPECSYS |-> "TOPOCENT"]

\* velocity axes in m/s, ascending and descending, over the same channels
VelocityHeaders ==
    { Header(t, "m/s", v, d) :
        t \in {VRAD, VOPT, VOPT_F2W, VELO},
        v \in {0, 0 - 1000 * (NChan - 1)},
        d \in {1000, 0 - 1000} }

FrequencyHeaders == { Header(FREQ, "Hz", 200000, d) : d \in {1000, 0 - 1000} }

Headers == VelocityHeaders \cup FrequencyHeaders

\* the cube of n channels whose entries are 1, 2, 3, ... in memory order
RampCube(n) ==
    ndarray("float64", <<n>> \o PlaneShape,
            [i \in 1..(n * Prod(PlaneShape)) |-> Num(i)])

Cubes == {RampCube(1), RampCube(NChan)}

TableHDU == [is_image |-> FALSE, data |-> None, header |-> None]

\* files: the image is the first HDU, or follows a table
Paths ==
    { [tag |-> "path", hdus |-> l] :
        l \in { <<ImageHDU(d, h)>> : d \in Cubes, h \in Headers }
              \cup { <<TableHDU, ImageHDU(d, h)>> : d \in Cubes, h \in Headers } }

APath == [tag |-> "path",
          hdus |-> <<ImageHDU(RampCube(NChan), Header(VOPT, "m/s", 0, 1000))>>]

ConstructArgs ==
    { [path |-> p, data |-> None, header |-> None] : p \in Paths }
    \cup { [path |-> None, data |-> d, header |-> h] :
             d \in {None} \cup Cubes, h \in {None} \cup Headers }
    \cup { [path |-> APath, data |-> d, header |-> h] :
             d \in {None, RampCube(1)},
             h \in {None, Header(FREQ, "Hz", 200000, 1000)} }

Kwargs == { {}, {<<"dtype", "float64">>} }

\* the query velocities, in km/s: below, on and above the axes of the headers
Queries == (0 - NChan)..1

LookupQueries ==
    { Quantity(<<v>>, dimensionless_unscaled) : v \in Queries }
    \cup { Quantity(<<v>>, km_s) : v \in Queries }
    \cup { Quantity(<<1000 * v>>, m_s) : v \in Queries }

VSlices == { Quantity(<<lo, hi>>, dimensionless_unscaled) :
               lo \in Queries, hi \in Queries }

----------------------------------------------------------------------------
(* The life cycle of one cube: constructed once, then read in any order *)

NoCall == [name |-> "", args |-> None]

Init ==
    /\ obj = None
    /\ call = NoCall
    /\ outcome = None

\* obj is the instance __init__ ran on; when __init__ raised, no reference
\* to it exists and nothing more can be called
Construct ==
    /\ obj = None
    /\ call = NoCall
    /\ \E cls \in Classes, a \in ConstructArgs, kw \in Kwargs :
         LET r == new(cls, a.path, a.data, a.header, kw)
         IN /\ obj' = r.self
            /\ call' = [name |-> "__init__",
                        args |-> [cls |-> cls, path |-> a.path, data |-> a.data,
                                  header |-> a.header, kwargs |-> kw]]
            /\ outcome' = r.ret

\* the constructor returned an instance
Constructed == obj # None /\ ~(call.name = "__init__" /\ outcome.tag = "raise")

\* a property read: obj.name
Get(name, r) ==
    /\ Constructed
    /\ obj' = r.self
    /\ call' = [name |-> name, args |-> None]
    /\ outcome' = r.ret

GetData == Get("data", data(obj))

GetWcs == Get("wcs", wcs(obj))

GetAxisUnits == Get("axis_units", axis_units(obj))

GetFrequencies == Get("frequencies", frequencies(obj))

GetRadioVelocities == Get("radio_velocities", radio_velocities(obj))

GetOpticalVelocities == Get("optical_velocities", optical_velocities(obj))

Lookup ==
    /\ Constructed
    /\ \E q \in LookupQueries :
         LET r == radio_velocities_to_channels(obj, q)
         IN /\ obj' = r.self
            /\ call' = [name |-> "radio_velocities_to_channels", args |-> q]
            /\ outcome' = r.ret

\* moment over a velocity range, and with no range at all; only a class
\* that mixes DatacubeMoments in has the method
MomentV ==
    /\ Constructed
    /\ "moment" \in Attributes(obj.cls)
    /\ \E vs \in VSlices \cup {None}, kind \in {0, 1} :
         LET r == moment(obj, vs, None, kind, None)
         IN /\ obj' = r.self
            /\ call' = [name |-> "moment",
                        args |-> [vslice |-> vs, cslice |-> None,
                                  kind |-> kind, mask |-> None]]
            /\ outcome' = r.ret

Next ==
    \/ Construct
    \/ GetData
    \/ GetWcs
    \/ GetAxisUnits
    \/ GetFrequencies
    \/ GetRadioVelocities
    \/ GetOpticalVelocities
    \/ Lookup
    \/ MomentV

Spec == Init /\ [][Next]_vars

----------------------------------------------------------------------------
(* One call of moment over a channel range, on every small cube *)

\* the velocity header of the cubes of this specification
MomentHeader == Header(VOPT, "m/s", 0 - 1000 * (MChan - 1), 1000)

\* every cube of MChan channels over NaN, 0 and 1
MomentCubes ==
    { ndarray("float64", <<MChan>> \o PlaneShape, f) :
        f \in [1..(MChan * Prod(PlaneShape)) -> {NaN, Num(0), Num(1)}] }

\* the masks of one spatial plane
PlaneMasks ==
    { ndarray("float64", PlaneShape, f) :
        f \in [1..Prod(PlaneShape) -> {Num(0), Num(1)}] }

\* the plane m in every one of n channels
Repeat(m, n) ==
    ndarray(m.dtype, <<n>> \o m.shape,
            [i \in 1..(n * Len(m.flat)) |-> m.flat[((i - 1) % Len(m.flat)) + 1]])

\* the mask of the cube's shape that keeps channel c alone
OnlyChannel(c) ==
    ndarray("float64", <<MChan>> \o PlaneShape,
            [i \in 1..(MChan * Prod(PlaneShape)) |->
                IF (i - 1) \div Prod(PlaneShape) = c THEN Num(1) ELSE Num(0)])

CubeMasks ==
    { Repeat(m, MChan) : m \in PlaneMasks }
    \cup { OnlyChannel(c) : c \in 0..(MChan - 1) }

Masks == {None} \cup PlaneMasks \cup CubeMasks

\* channel ranges: every pair of whole channels, and (0.5, MChan - 0.5)
CSlices ==
    { [tag |-> "list", items |-> <<FromChannel(lo), FromChannel(hi)>>] :
        lo \in 0..MChan, hi \in 0..MChan }
    \cup { [tag |-> "list", items |-> <<1, FromChannel(MChan) - 1>>] }

InitMoment ==
    /\ \E d \in MomentCubes :
         /\ obj = new("EBHISDatacube", None, d, MomentHeader, {}).self
         /\ call = [name |-> "__init__",
                    args |-> [cls |-> "EBHISDatacube", path |-> None,
                              data |-> d, header |-> MomentHeader,
                              kwargs |-> {}]]
    /\ outcome = Return(None)

MomentC ==
    /\ Constructed
    /\ call.name = "__init__"
    /\ \E cs \in CSlices, kind \in {0, 1, 2}, mask \in Masks :
         LET r == moment(obj, None, cs, kind, mask)
         IN /\ obj' = r.self
            /\ call' = [name |-> "moment",
                        args |-> [vslice |-> None, cslice |-> cs,
                                  kind |-> kind, mask |-> mask]]
            /\ outcome' = r.ret

NextMoment == MomentC

SpecMoment == InitMoment /\ [][NextMoment]_vars

----------------------------------------------------------------------------
(* The properties *)

StrictlyAscending(a) == \A i \in 1..(Len(a) - 1) : a[i] < a[i + 1]

\* the query of a lookup call in km/s, the unit of the radio-velocity axis
QueryKms(q) == IF q.unit = m_s THEN q.value[1] \div 1000 ELSE q.value[1]

IsLookup == Constructed /\ call.name = "radio_velocities_to_channels"

IsMoment == Constructed /\ call.name = "moment"

Unsupported(ctype) ==
    ~Contains(VRAD, ctype) /\ ~Contains(VOPT, ctype) /\ ~Contains(FREQ, ctype)

\* C1: on a strictly ascending radio-velocity axis of N channels the lookup
\* returns, for every query, an index within 0..N-1: index 0 for a query at
\* or below the first axis value, index N-1 for a query at or above the
\* last, and index k for a query equal to axis value k.
C1_AscendingLookupWithinAxis ==
    (/\ IsLookup
     /\ obj._radio_velocities # None
     /\ StrictlyAscending(obj._radio_velocities.value))
    => /\ outcome.tag = "return"
       /\ LET a == obj._radio_velocities.value
              v == QueryKms(call.args)
              k == outcome.value.channels[1]
          IN /\ k \in 0..(Len(a) - 1)
             /\ (v <= a[1] => k = 0)
             /\ (v >= a[Len(a)] => k = Len(a) - 1)
             /\ \A j \in 1..Len(a) : (v = a[j] => k = j - 1)

\* C2: a lookup that returns on an axis returns, on the reversed axis and for
\* the same query, a channel whose stored velocity is the same.
C2_ReversedAxisSameVelocity ==
    (IsLookup /\ outcome.tag = "return")
    => LET rev == radio_velocities_to_channels(
                      [obj EXCEPT !._radio_velocities.value = Reversed(@)],
                      call.args).ret
       IN /\ rev.tag = "return"
          /\ rev.value.true_velocities = outcome.value.true_velocities

\* C3: moment(kind=1) over a channel range in which exactly one channel
\* carries non-zero flux at a pixel returns a map that holds that channel's
\* velocity at that pixel.
C3_FirstMomentOfSingleChannel ==
    \A p \in 1..Prod(PlaneShape) :
      \A k \in 0..(obj._hdu.data.shape[1] - 1) :
        (/\ IsMoment
         /\ call.args.kind = 1
         /\ call.args.cslice # None
         /\ call.args.mask = None
         /\ LET lo == np_floor(call.args.cslice.items[1])
                hi == np_ceil(call.args.cslice.items[2])
                at(c) == obj._hdu.data.flat[c * Prod(PlaneShape) + p]
            IN /\ lo <= k /\ k < hi
               /\ at(k) \notin {NaN, Num(0)}
               /\ \A c \in lo..(hi - 1) : c # k => at(c) \in {NaN, Num(0)})
        => /\ outcome.tag = "return"
           /\ outcome.value.flat[p] =
                  Num(radio_velocities(obj).ret.value.value[k + 1])

RECURSIVE PlainSum(_, _, _)
\* the sum of the cube's entries at pixel p over channels 0 .. c - 1, a NaN
\* entry counted as zero
PlainSum(cube, p, c) ==
    IF c = 0 THEN 0
    ELSE LET x == cube.flat[(c - 1) * Prod(PlaneShape) + p]
         IN PlainSum(cube, p, c - 1) + (IF x = NaN THEN 0 ELSE x[1])

\* the channel range of the call covers the whole spectral axis
FullRange ==
    /\ call.args.cslice # None
    /\ np_floor(call.args.cslice.items[1]) = 0
    /\ np_ceil(call.args.cslice.items[2]) = obj._hdu.data.shape[1]

\* C4: moment(kind=0) over the full spectral axis with no mask returns, at
\* every pixel, the sum of the cube over all channels, NaN counted as zero.
C4_ZerothMomentIsPlainSum ==
    (IsMoment /\ call.args.kind = 0 /\ call.args.mask = None /\ FullRange)
    => /\ outcome.tag = "return"
       /\ outcome.value.shape = PlaneShape
       /\ \A p \in 1..Prod(PlaneShape) :
            outcome.value.flat[p] =
                Num(PlainSum(obj._hdu.data, p, obj._hdu.data.shape[1]))

C4_Witness ==
    /\ IsMoment /\ call.args.kind = 0 /\ call.args.mask = None /\ FullRange
    /\ obj._hdu.data.flat[1] = NaN
    /\ outcome.tag = "return"
    /\ outcome.value.flat[1] = Num(1)
    /\ outcome.value.flat[2] = Num(2)

IsPlaneMask(m) == m # None /\ m.shape = PlaneShape

C6_UnsupportedTypeRaises ==
    (Constructed /\ Unsupported(obj._hdu.header.CTYPE3))
    => /\ obj._frequencies = None
       /\ obj._radio_velocities = None
       /\ obj._optical_velocities = None
       /\ call.name \in {"frequencies", "radio_velocities",
                         "optical_velocities", "radio_velocities_to_channels"}
          => outcome = Raise("AttributeError",
                             <<"Unsupported spectral type ",
                               obj._hdu.header.CTYPE3, " in header.">>)

C6_Witness ==
    /\ Constructed /\ Unsupported(obj._hdu.header.CTYPE3)
    /\ call.name = "radio_velocities"
    /\ outcome.tag = "raise"
    /\ obj._wcs # None
    /\ obj._axis_units # None

\* neither a path nor a complete (data, header) pair is given
NeitherSource(a) == a.path = None /\ (a.data = None \/ a.header = None)

\* C7: construction raises the "Either path or data and header" error
\* exactly when neither a path nor both data and header are given, and then
\* the instance holds no HDU.
C7_ConstructionNeedsASource ==
    call.name = "__init__"
    => IF NeitherSource(call.args)
       THEN /\ outcome = Raise("AttributeError",
                    <<"Either path or data and header have to be set.">>)
            /\ obj._hdu = None
       ELSE outcome # Raise("AttributeError",
                    <<"Either path or data and header have to be set.">>)

C7_Witness ==
    /\ call.name = "__init__"
    /\ call.args.path = None
    /\ call.args.data # None
    /\ call.args.header = None
    /\ outcome.tag = "raise"

\* the value a read of the property gives once its cache is filled
Cached(o, name) ==
    CASE name = "wcs" -> o._wcs
      [] name = "axis_units" -> o._axis_units
      [] name = "frequencies" -> o._frequencies
      [] name = "radio_velocities" -> o._radio_velocities
      [] name = "optical_velocities" -> o._optical_velocities

CachedProperties ==
    {"wcs", "axis_units", "frequencies", "radio_velocities",
     "optical_velocities"}

\* C8: once a cache holds a value no call changes or clears it, and a later
\* read of the property returns that value.
C8_CachesFilledOnce ==
    [][Constructed =>
         \A name \in CachedProperties :
            Cached(obj, name) # None
            => /\ Cached(obj', name) = Cached(obj, name)
               /\ call'.name = name => outcome' = Return(Cached(obj, name))]_vars

C8_Witness ==
    /\ Constructed
    /\ call.name = "wcs"
    /\ obj._radio_velocities # None
    /\ obj._optical_velocities # None
    /\ outcome = Return(obj._wcs)

\* C9: when the constructor of EBHISDatacube returns, the header holds
\* 'm/s', 'VRAD' and 'LSRK' and every cache is empty; the coordinate
\* descriptor and the axis units built later hold the overwritten fields.
C9_EBHISOverwritesBeforeLazyReads ==
    (Constructed /\ obj.cls = "EBHISDatacube")
    => /\ obj._hdu.header.CUNIT3 = "m/s"
       /\ obj._hdu.header.CTYPE3 = VRAD
       /\ obj._hdu.header.SPECSYS = "LSRK"
       /\ call.name = "__init__"
          => \A name \in CachedProperties : Cached(obj, name) = None
       /\ obj._wcs # None
          => /\ obj._wcs.cunit[3] = "m/s"
             /\ obj._wcs.ctype[3] = VRAD
             /\ obj._wcs.specsys = "LSRK"
       /\ obj._axis_units # None => obj._axis_units.items[3] = m_s

\* an EBHIS cube of a file whose header said FREQ in Hz (the headers with
\* CRVAL3 = 200000), after its descriptor and its axis units were built
C9_Witness ==
    /\ Constructed /\ obj.cls = "EBHISDatacube"
    /\ obj._wcs # None
    /\ obj._wcs.crval3 = 200000
    /\ obj._wcs.ctype[3] = VRAD
    /\ obj._axis_units # None
    /\ obj._axis_units.items[3] = m_s

\* C10: when moment over a velocity range (v_lo, v_hi), v_lo <= v_hi,
\* returns, the channel slice it summed contains every channel whose stored
\* radio velocity lies within [v_lo, v_hi].
C10_VelocityRangeCovered ==
    (/\ IsMoment
     /\ call.args.vslice # None
     /\ call.args.vslice.value[1] <= call.args.vslice.value[2]
     /\ outcome.tag = "return")
    => LET sl == data_slice(obj, call.args.vslice, None).ret.value
           a == obj._radio_velocities.value
           start == SliceStart(sl.lo, Len(a))
           len == SliceLen(sl.lo, sl.hi, Len(a))
       IN \A c \in 0..(Len(a) - 1) :
            (call.args.vslice.value[1] <= a[c + 1]
             /\ a[c + 1] <= call.args.vslice.value[2])
            => (start <= c /\ c < start + len)

====
